---- MODULE Spec2Model ----
(***************************************************************************)
(* CPU scheduling visualizer (src/scheduler.js, class Scheduler).          *)
(*                                                                         *)
(* The state is the Scheduler object's core fields (processes, timeline,   *)
(* metrics), the two controls read by run() (algorithmSelect,              *)
(* timeQuantumInput) and the local variables of the algorithm that run()   *)
(* is executing.  run() is synchronous: one action starts it (RunStart),   *)
(* one action is taken per iteration of the selected algorithm's loop, and *)
(* one action (RunFinish) returns the result, stores it in this.timeline   *)
(* and calls calculateMetrics().  pc names the algorithm whose loop is     *)
(* executing, so no other handler interleaves with a run.                  *)
(***************************************************************************)
EXTENDS Integers, Sequences, FiniteSets, TLC

VARIABLES processes, timeline, metrics, algorithmSelect, timeQuantumInput,
          pc, result, time, sorted, idx, remaining, procs, active,
          startTime, queue, tq

vars == <<processes, timeline, metrics, algorithmSelect, timeQuantumInput,
          pc, result, time, sorted, idx, remaining, procs, active,
          startTime, queue, tq>>

locals == <<result, time, sorted, idx, remaining, procs, active,
            startTime, queue, tq>>

store == <<processes, algorithmSelect, timeQuantumInput>>

(***************************************************************************)
(* Bounds of the checked inputs.                                           *)
(***************************************************************************)
MaxProcs == 3

MaxArrival == 2

MaxBurst == 3

MaxPriority == 2

MaxQuantum == 2

\* Longest process list of the runs checked for termination.
MaxTermProcs == 2

\* Bounds of the inputs typed into the form and read from an uploaded file:
\* ids P1..P<MaxIds>, arrival -1..MaxFormArrival, burst -1..MaxFormBurst,
\* priority 0..MaxFormPriority, files of at most MaxRows rows.
MaxIds == 2
MaxFormArrival == 1
MaxFormBurst == 2
MaxFormPriority == 1
MaxRows == 2

\* Cap on the simulated clock of roundRobin, whose idle branch (time++) has
\* no exit when no process ever reaches the queue.  No run on a checked
\* valid input comes near it.
MaxClock == 24

(***************************************************************************)
(* Generic helpers.                                                        *)
(***************************************************************************)
Range(s) == {s[k] : k \in 1..Len(s)}

SetMin(S) == CHOOSE x \in S : \A y \in S : x <= y

SetMax(S) == CHOOSE x \in S : \A y \in S : y <= x

Min2(a, b) == IF a < b THEN a ELSE b

\* The indices k of s, in increasing order, for which keep[k] holds.
RECURSIVE FilterIdx(_, _)
FilterIdx(keep, n) ==
  IF n = 0 THEN <<>>
  ELSE IF keep[n] THEN Append(FilterIdx(keep, n - 1), n)
       ELSE FilterIdx(keep, n - 1)

\* s without its k-th element (Array.prototype.splice(k, 1)).
Splice(s, k) == [j \in 1..(Len(s) - 1) |-> IF j < k THEN s[j] ELSE s[j + 1]]

\* Position of the first element of s equal to x (Array.prototype.indexOf).
IndexOf(s, x) == SetMin({k \in 1..Len(s) : s[k] = x})

(***************************************************************************)
(* Timeline entries.  Entries pushed when a process is dispatched to       *)
(* completion carry the process's arrival; IDLE entries and the entries    *)
(* pushed on a preemption do not.                                          *)
(***************************************************************************)
IDLE == "IDLE"

IdleEntry(s, e) == [process |-> IDLE, start |-> s, end |-> e]

PreemptEntry(id, s, e) == [process |-> id, start |-> s, end |-> e]

RunEntry(id, s, e, a) == [process |-> id, start |-> s, end |-> e, arrival |-> a]

NoMetrics == [none |-> TRUE]

(***************************************************************************)
(* [...this.processes].sort((a, b) => a.arrival - b.arrival): a stable     *)
(* sort (Array.prototype.sort is stable) with the comparator Compare,      *)
(* computed by stable insertion.                                           *)
(***************************************************************************)
\* Variant: the comparator with its operands swapped (a descending sort).
CompareSwapped(a, b) == b.arrival - a.arrival

Compare(a, b) == a.arrival - b.arrival

RECURSIVE InsertByArrival(_, _)
InsertByArrival(s, p) ==
  IF s = <<>> THEN <<p>>
  ELSE LET last == s[Len(s)]
       IN  IF Compare(last, p) <= 0 THEN Append(s, p)
           ELSE Append(InsertByArrival(SubSeq(s, 1, Len(s) - 1), p), last)

RECURSIVE SortByArrivalUpTo(_, _)
SortByArrivalUpTo(ps, n) ==
  IF n = 0 THEN <<>>
  ELSE InsertByArrival(SortByArrivalUpTo(ps, n - 1), ps[n])

SortByArrival(ps) == SortByArrivalUpTo(ps, Len(ps))

(***************************************************************************)
(* available.reduce((a, b) => key(a) < key(b) ? a : b): a left fold that   *)
(* keeps the accumulator only when its key is strictly smaller.  keys[k]   *)
(* is the key of the k-th element of the array; the result is the position *)
(* of the element the fold returns.                                        *)
(***************************************************************************)
RECURSIVE ReduceUpTo(_, _)
ReduceUpTo(keys, n) ==
  IF n = 1 THEN 1
  ELSE LET a == ReduceUpTo(keys, n - 1)
       IN  IF keys[a] < keys[n] THEN a ELSE n

\* Variant: the fold returns its last element whatever the keys.
ReduceLast(keys) == Len(keys)

ReduceMin(keys) == ReduceUpTo(keys, Len(keys))

\* Variant: the latest arrival instead of the earliest.
NextArrivalMax(arrivals) == SetMax(arrivals)

\* Math.min(...remaining.map(p => p.arrival)): the clock's target when no
\* process is available.
NextArrival(arrivals) == SetMin(arrivals)

\* this.processes.map(p => ({ ...p, remaining: p.burst }))
WithRemaining(ps) ==
  [k \in 1..Len(ps) |->
     [id |-> ps[k].id, arrival |-> ps[k].arrival, burst |-> ps[k].burst,
      priority |-> ps[k].priority, remaining |-> ps[k].burst]]

\* parseInt(this.timeQuantumInput.value) || 2, for an integer input value.
DefaultQuantum == 2

Quantum(v) == IF v = 0 THEN DefaultQuantum ELSE v

Algorithms == {"FCFS", "SJF", "Priority", "SRTF", "RoundRobin"}

(***************************************************************************)
(* JavaScript numbers that arise from a division: the exact fraction       *)
(* num/den.  den = 0 stands for a non-finite value (NaN, +-Infinity).      *)
(***************************************************************************)
Frac(n, d) == [num |-> n, den |-> d]

NaN == Frac(0, 0)

NegInfinity == Frac(0 - 1, 0)

(***************************************************************************)
(* calculateMetrics(): completion[id] is the end of the last entry naming  *)
(* id, responseTime[id] the start of the first one; IDLE entries are       *)
(* skipped.  A process without any entry has completion undefined, which   *)
(* makes every sum it enters NaN.                                          *)
(***************************************************************************)
EntriesOf(tl, id) == {k \in 1..Len(tl) : tl[k].process # IDLE /\ tl[k].process = id}

\* Variant: the end of the first entry naming id.
CompletionFirst(tl, id) == tl[SetMin(EntriesOf(tl, id))].end

Completion(tl, id) == tl[SetMax(EntriesOf(tl, id))].end

FirstStart(tl, id) == tl[SetMin(EntriesOf(tl, id))].start

RECURSIVE SumUpTo(_, _)
SumUpTo(f, n) == IF n = 0 THEN 0 ELSE SumUpTo(f, n - 1) + f[n]

Sum(f) == SumUpTo(f, Len(f))

\* Variant: the end of the first entry instead of the maximum end.
TotalTimeFirst(tl) == IF tl = <<>> THEN NegInfinity ELSE Frac(tl[1].end, 1)

\* Math.max(...this.timeline.map(t => t.end))
TotalTime(tl) ==
  IF tl = <<>> THEN NegInfinity ELSE Frac(SetMax({tl[k].end : k \in 1..Len(tl)}), 1)

CalculateMetrics(tl, ps) ==
  LET n         == Len(ps)
      defined   == \A k \in 1..n : EntriesOf(tl, ps[k].id) # {}
      tat       == [k \in 1..n |-> Completion(tl, ps[k].id) - ps[k].arrival]
      wt        == [k \in 1..n |-> tat[k] - ps[k].burst]
      rt        == [k \in 1..n |-> FirstStart(tl, ps[k].id) - ps[k].arrival]
      totalTime == TotalTime(tl)
      totalBurst == Sum([k \in 1..n |-> ps[k].burst])
  IN  [avgWait      |-> IF defined THEN Frac(Sum(wt), n) ELSE NaN,
       avgTurn      |-> IF defined THEN Frac(Sum(tat), n) ELSE NaN,
       avgResp      |-> IF defined THEN Frac(Sum(rt), n) ELSE NaN,
       totalTime    |-> totalTime,
       totalTurnSum |-> IF defined THEN Frac(Sum(tat), 1) ELSE NaN,
       cpuUtil      |-> IF totalTime.den = 0 THEN Frac(0, 1)
                        ELSE Frac(totalBurst * 100, totalTime.num),
       responseTime |-> [id \in {tl[k].process : k \in {j \in 1..Len(tl) : tl[j].process # IDLE}}
                           |-> FirstStart(tl, id)]]

(***************************************************************************)
(* The checked inputs: every list of 1..MaxProcs processes with unique     *)
(* ids, arrival in 0..MaxArrival, burst in 1..MaxBurst and priority in     *)
(* 1..MaxPriority, together with the process lists the specification       *)
(* names as examples.  Only roundRobin reads the quantum and only          *)
(* priority() reads a process's priority, so the quantum input varies only *)
(* when Round Robin is selected and the priorities only when Priority is.  *)
(***************************************************************************)
Id(k) == "P" \o ToString(k)

Proc(i, a, b, pr) == [id |-> i, arrival |-> a, burst |-> b, priority |-> pr]

\* parseInt(this.priorityInput.value) || 1: the priority of a process added
\* while the priority input is hidden (any algorithm but Priority).
DefaultPriority == 1

Params(prios) == [arrival : 0..MaxArrival, burst : 1..MaxBurst, priority : prios]

BoundedLists(prios) ==
  UNION {{[k \in 1..n |-> Proc(Id(k), f[k].arrival, f[k].burst, f[k].priority)] :
            f \in [1..n -> Params(prios)]} : n \in 1..MaxProcs}

ExampleLists ==
  {<<Proc("P1", 0, 5, 1), Proc("P2", 1, 3, 1)>>,
   <<Proc("P1", 0, 7, 1), Proc("P2", 2, 4, 1), Proc("P3", 4, 1, 1)>>,
   <<Proc("P1", 0, 8, 1), Proc("P2", 1, 4, 1)>>,
   <<Proc("P1", 0, 4, 1), Proc("P2", 1, 4, 1)>>}

Init ==
  /\ algorithmSelect \in Algorithms
  /\ processes \in ExampleLists \cup
                   BoundedLists(IF algorithmSelect = "Priority" THEN 1..MaxPriority
                                ELSE {DefaultPriority})
  /\ timeQuantumInput \in IF algorithmSelect = "RoundRobin" THEN 1..MaxQuantum
                          ELSE {DefaultQuantum}
  /\ timeline = <<>>
  /\ metrics = NoMetrics
  /\ pc = "idle"
  /\ result = <<>>
  /\ time = 0
  /\ sorted = <<>>
  /\ idx = 1
  /\ remaining = <<>>
  /\ procs = <<>>
  /\ active = 0
  /\ startTime = 0
  /\ queue = <<>>
  /\ tq = 0

(***************************************************************************)
(* run(), up to the first loop test of the selected algorithm: the guard   *)
(* on an empty process list, the dispatch on algorithmSelect and the       *)
(* declarations at the head of the algorithm.  remaining, active and queue *)
(* hold positions in this.processes / procs (object references in the      *)
(* source); active = 0 is null.                                            *)
(***************************************************************************)
\* Variant: the per-run copies of an earlier run are reused.
InitProcsReused(ps) == IF procs # <<>> THEN procs ELSE WithRemaining(ps)

InitProcs(ps) == WithRemaining(ps)

\* Variant: run() starts the algorithm whatever the list holds.
RunGuardNone(ps) == TRUE

\* if (this.processes.length === 0) return alert(...)
RunGuard(ps) == Len(ps) # 0

RunStart ==
  /\ pc = "idle"
  /\ RunGuard(processes)
  /\ pc' = algorithmSelect
  /\ result' = <<>>
  /\ time' = 0
  /\ sorted' = IF algorithmSelect = "FCFS" THEN SortByArrival(processes) ELSE sorted
  /\ idx' = IF algorithmSelect = "FCFS" THEN 1 ELSE idx
  /\ remaining' = IF algorithmSelect = "SJF" THEN [k \in 1..Len(processes) |-> k]
                  ELSE remaining
  /\ procs' = IF algorithmSelect \in {"Priority", "SRTF", "RoundRobin"}
              THEN InitProcs(processes) ELSE procs
  /\ active' = IF algorithmSelect \in {"Priority", "SRTF"} THEN 0 ELSE active
  /\ startTime' = IF algorithmSelect \in {"Priority", "SRTF"} THEN 0 ELSE startTime
  /\ queue' = IF algorithmSelect = "RoundRobin" THEN <<>> ELSE queue
  /\ tq' = IF algorithmSelect = "RoundRobin" THEN Quantum(timeQuantumInput) ELSE tq
  /\ UNCHANGED <<store, timeline, metrics>>

(***************************************************************************)
(* fcfs(): one iteration of `for (const p of sorted)`.                     *)
(***************************************************************************)
FcfsStep ==
  /\ pc = "FCFS"
  /\ idx <= Len(sorted)
  /\ LET p  == sorted[idx]
         t1 == IF time < p.arrival THEN p.arrival ELSE time
         r1 == IF time < p.arrival THEN Append(result, IdleEntry(time, p.arrival))
               ELSE result
     IN  /\ result' = Append(r1, RunEntry(p.id, t1, t1 + p.burst, p.arrival))
         /\ time' = t1 + p.burst
  /\ idx' = idx + 1
  /\ UNCHANGED <<store, timeline, metrics, pc, sorted, remaining, procs, active,
                 startTime, queue, tq>>

(***************************************************************************)
(* sjf(): one iteration of `while (remaining.length > 0)`.                 *)
(***************************************************************************)
\* Variant: splice(0, 1) whatever process was run.
RemoveHead(rem, k) == Splice(rem, 1)

RemoveRun(rem, k) == Splice(rem, IndexOf(rem, k))

\* Variant: remaining is this.processes itself, so that splice removes the
\* process from the store.
StoreSpliced(ps, rem) == [j \in 1..Len(rem) |-> ps[rem[j]]]

\* const remaining = [...this.processes]: splice works on a copy and the
\* store keeps every process.  rem is the copy after the iteration.
StoreKept(ps, rem) == ps

SjfStep ==
  /\ pc = "SJF"
  /\ Len(remaining) > 0
  /\ LET available == SelectSeq(remaining, LAMBDA k : processes[k].arrival <= time)
     IN  IF Len(available) = 0
         THEN LET nextArrival == NextArrival({processes[k].arrival : k \in Range(remaining)})
              IN  /\ result' = Append(result, IdleEntry(time, nextArrival))
                  /\ time' = nextArrival
                  /\ UNCHANGED remaining
         ELSE LET k == available[ReduceMin([j \in 1..Len(available) |->
                                              processes[available[j]].burst])]
                  p == processes[k]
              IN  /\ result' = Append(result, RunEntry(p.id, time, time + p.burst, p.arrival))
                  /\ time' = time + p.burst
                  /\ remaining' = RemoveRun(remaining, k)
  /\ processes' = StoreKept(processes, remaining')
  /\ UNCHANGED <<algorithmSelect, timeQuantumInput, timeline, metrics, pc, sorted,
                 idx, procs, active, startTime, queue, tq>>

(***************************************************************************)
(* priority() and srtf(): one iteration of                                 *)
(* `while (procs.some(p => p.remaining > 0))`.  The two loops differ only  *)
(* in the key of the reduce.                                               *)
(***************************************************************************)
\* Variant: the filter without the arrival test.
AvailableEarly(ps, t) ==
  FilterIdx([k \in 1..Len(ps) |-> ps[k].remaining > 0], Len(ps))

Available(ps, t) ==
  FilterIdx([k \in 1..Len(ps) |-> ps[k].arrival <= t /\ ps[k].remaining > 0], Len(ps))

SomeRemaining(ps) == \E k \in 1..Len(ps) : ps[k].remaining > 0

\* Variant: the larger priority number wins.
PriorityKeyInverted(p) == 0 - p.priority

PriorityKey(p) == p.priority

\* Variant: selection by the total burst, as in sjf.
SrtfKeyBurst(p) == p.burst

SrtfKey(p) == p.remaining

\* keys[k] is the reduce key of procs[k].
Select(available, keys) ==
  available[ReduceMin([j \in 1..Len(available) |-> keys[available[j]]])]

\* Variant: startTime is not moved on a switch.
IntervalStartStale(switch, t, st) == st

IntervalStart(switch, t, st) == IF switch THEN t ELSE st

\* Variant: every iteration counts as a switch.
SwitchAlways(act, chosen) == TRUE

\* if (active !== chosen): act is the position of active in procs, 0 for null.
Switch(act, chosen) == act # chosen

PreemptiveStep(keys) ==
  /\ SomeRemaining(procs)
  /\ LET available == Available(procs, time)
     IN  IF Len(available) = 0
         THEN LET nextArrival ==
                    NextArrival({procs[k].arrival : k \in {j \in 1..Len(procs) : procs[j].remaining > 0}})
              IN  /\ result' = Append(result, IdleEntry(time, nextArrival))
                  /\ time' = nextArrival
                  /\ UNCHANGED <<procs, active, startTime>>
         ELSE LET chosen == Select(available, keys)
                  switch == Switch(active, chosen)
                  r1     == IF switch /\ active # 0
                            THEN Append(result, PreemptEntry(procs[active].id, startTime, time))
                            ELSE result
                  st     == IntervalStart(switch, time, startTime)
                  left   == procs[chosen].remaining - 1
              IN  /\ procs' = [procs EXCEPT ![chosen].remaining = left]
                  /\ time' = time + 1
                  /\ startTime' = st
                  /\ IF left = 0
                     THEN /\ result' = Append(r1, RunEntry(procs[chosen].id, st, time + 1,
                                                           procs[chosen].arrival))
                          /\ active' = 0
                     ELSE /\ result' = r1
                          /\ active' = chosen
  /\ UNCHANGED <<store, timeline, metrics, pc, sorted, idx, remaining, queue, tq>>

PriorityStep ==
  /\ pc = "Priority"
  /\ PreemptiveStep([k \in 1..Len(procs) |-> PriorityKey(procs[k])])

SrtfStep ==
  /\ pc = "SRTF"
  /\ PreemptiveStep([k \in 1..Len(procs) |-> SrtfKey(procs[k])])

(***************************************************************************)
(* roundRobin(tq): one iteration of                                        *)
(* `while (queue.length > 0 || procs.some(p => p.remaining > 0))`.         *)
(***************************************************************************)
\* Variant: arrivals are never picked up at the top of the loop.
ArrivingAtNone(ps, t) == <<>>

ArrivingAt(ps, t) == FilterIdx([k \in 1..Len(ps) |-> ps[k].arrival = t], Len(ps))

NewlyArrived(ps, t, q) ==
  FilterIdx([k \in 1..Len(ps) |->
               ps[k].arrival <= t /\ ps[k].remaining > 0 /\ k \notin Range(q)], Len(ps))

\* Variant: a slice runs the process to completion.
ExecRemaining(q, rem) == rem

\* Variant: a slice is always the whole quantum.
ExecQuantum(q, rem) == q

Exec(q, rem) == Min2(q, rem)

RoundRobinStep ==
  /\ pc = "RoundRobin"
  /\ Len(queue) > 0 \/ SomeRemaining(procs)
  /\ time <= MaxClock
  /\ LET q1 == queue \o ArrivingAt(procs, time)
     IN  IF Len(q1) = 0
         THEN /\ time' = time + 1
              /\ queue' = q1
              /\ UNCHANGED <<result, procs>>
         ELSE LET p    == Head(q1)
                  q2   == Tail(q1)
                  exec == Exec(tq, procs[p].remaining)
                  t1   == time + exec
                  ps1  == [procs EXCEPT ![p].remaining = @ - exec]
                  q3   == q2 \o NewlyArrived(ps1, t1, q2)
              IN  /\ result' = Append(result, RunEntry(procs[p].id, time, t1, procs[p].arrival))
                  /\ time' = t1
                  /\ procs' = ps1
                  /\ queue' = IF ps1[p].remaining > 0 THEN Append(q3, p) ELSE q3
  /\ UNCHANGED <<store, timeline, metrics, pc, sorted, idx, remaining, active,
                 startTime, tq>>

(***************************************************************************)
(* The loop test of the running algorithm fails: the algorithm returns     *)
(* result, run() stores it in this.timeline and calls calculateMetrics().  *)
(***************************************************************************)
LoopDone ==
  CASE pc = "FCFS"       -> idx > Len(sorted)
    [] pc = "SJF"        -> Len(remaining) = 0
    [] pc = "Priority"   -> ~SomeRemaining(procs)
    [] pc = "SRTF"       -> ~SomeRemaining(procs)
    [] pc = "RoundRobin" -> ~(Len(queue) > 0 \/ SomeRemaining(procs))
    [] OTHER             -> FALSE

RunFinish ==
  /\ pc # "idle"
  /\ LoopDone
  /\ timeline' = result
  /\ metrics' = CalculateMetrics(result, processes)
  /\ pc' = "idle"
  /\ UNCHANGED <<store, locals>>

Next ==
  \/ RunStart
  \/ FcfsStep
  \/ SjfStep
  \/ PriorityStep
  \/ SrtfStep
  \/ RoundRobinStep
  \/ RunFinish

Spec == Init /\ [][Next]_vars

\* The runs checked for termination: the store holds a short valid list.
ShortLists ==
  UNION {{[k \in 1..n |-> Proc(Id(k), f[k].arrival, f[k].burst, f[k].priority)] :
            f \in [1..n -> Params({DefaultPriority})]} : n \in 1..MaxTermProcs}

TermInit ==
  /\ algorithmSelect \in Algorithms
  /\ processes \in ExampleLists \cup ShortLists
  /\ timeQuantumInput \in IF algorithmSelect = "RoundRobin" THEN 1..MaxQuantum
                          ELSE {DefaultQuantum}
  /\ timeline = <<>>
  /\ metrics = NoMetrics
  /\ pc = "idle"
  /\ result = <<>>
  /\ time = 0
  /\ sorted = <<>>
  /\ idx = 1
  /\ remaining = <<>>
  /\ procs = <<>>
  /\ active = 0
  /\ startTime = 0
  /\ queue = <<>>
  /\ tq = 0

\* run() is synchronous: once started, the loop of the selected algorithm
\* keeps taking steps until its test fails.
FairSpec == TermInit /\ [][Next]_vars /\ WF_vars(Next)

(***************************************************************************)
(* The handlers of the page.  A handler runs to completion, so none starts *)
(* while run() is inside its algorithm (pc # "idle").  A rejected input    *)
(* (an alert and an early return) leaves every variable unchanged.         *)
(*                                                                         *)
(* The value of a form field or of a file cell is <<>> when it is empty or *)
(* not a number, and <<n>> when it reads as the integer n.  Ids are        *)
(* entered without surrounding blanks; "" is the empty id.                 *)
(*                                                                         *)
(* The checked sessions fill the store and choose the algorithm before     *)
(* the first run; afterwards processes are deleted, the display is reset   *)
(* and the scheduler is run again.  No store handler reads the timeline or *)
(* the metrics, so every store content is reached before the first run.    *)
(***************************************************************************)
Missing == <<>>

\* parseInt(value) || d
ParseIntOr(v, d) == IF v = Missing THEN d ELSE IF v[1] = 0 THEN d ELSE v[1]

IdInputs == {""} \cup {Id(k) : k \in 1..MaxIds}

ArrivalInputs == {Missing} \cup {<<a>> : a \in (0 - 1)..MaxFormArrival}

BurstInputs == {Missing} \cup {<<b>> : b \in (0 - 1)..MaxFormBurst}

PriorityInputs == {Missing} \cup {<<p>> : p \in 0..MaxFormPriority}

QuantumInputs == 0..MaxQuantum

BeforeFirstRun == metrics = NoMetrics

\* Variant: no id is ever found in the store.
ExistsNever(ps, id) == FALSE

\* this.processes.some(p => p.id === id)
Exists(ps, id) == \E k \in 1..Len(ps) : ps[k].id = id

\* Variant: addProcess accepts every burst.
BurstTooSmallNever(burst) == FALSE

\* if (burst <= 0) return alert("Burst Time must be at least 1.")
BurstTooSmall(burst) == burst <= 0

AddProcess ==
  /\ pc = "idle"
  /\ BeforeFirstRun
  /\ \E idIn \in IdInputs, arrivalIn \in ArrivalInputs,
        burstIn \in BurstInputs, priorityIn \in PriorityInputs :
       LET id       == idIn
           arrival  == ParseIntOr(arrivalIn, 0)
           burst    == ParseIntOr(burstIn, 1)
           priority == ParseIntOr(priorityIn, DefaultPriority)
       IN  processes' =
             IF id = "" THEN processes
             ELSE IF Exists(processes, id) THEN processes
             ELSE IF BurstTooSmall(burst) THEN processes
             ELSE Append(processes, Proc(id, arrival, burst, priority))
  /\ UNCHANGED <<algorithmSelect, timeQuantumInput, timeline, metrics, pc, locals>>

\* this.processes.filter(p => p.id !== id); a delete button exists for every
\* listed process.
DeleteProcess ==
  /\ pc = "idle"
  /\ \E k \in 1..Len(processes) :
       processes' = SelectSeq(processes, LAMBDA p : p.id # processes[k].id)
  /\ UNCHANGED <<algorithmSelect, timeQuantumInput, timeline, metrics, pc, locals>>

\* reset(): the timeline is emptied, this.metrics is left as it is.
\* Variant: reset() empties the process list too.
ResetList ==
  /\ pc = "idle"
  /\ timeline' = <<>>
  /\ processes' = <<>>
  /\ UNCHANGED <<algorithmSelect, timeQuantumInput, metrics, pc, locals>>

Reset ==
  /\ pc = "idle"
  /\ timeline' = <<>>
  /\ UNCHANGED <<store, metrics, pc, locals>>

\* clearAll(): this.processes = [] and then reset().
ClearAll ==
  /\ pc = "idle"
  /\ processes' = <<>>
  /\ timeline' = <<>>
  /\ UNCHANGED <<algorithmSelect, timeQuantumInput, metrics, pc, locals>>

\* The rows of a parsed file: the cells of the id, arrival, burst and
\* priority columns.
Rows ==
  [process : IdInputs, arrival : ArrivalInputs, burst : BurstInputs,
   priority : {Missing}]

Files == UNION {[1..n -> Rows] : n \in 0..MaxRows}

\* One step of data.forEach: the store after the row.
ImportRow(ps, row) ==
  IF row.process = "" THEN ps
  ELSE IF Exists(ps, row.process) THEN ps
  ELSE IF row.arrival = Missing THEN ps
  ELSE IF row.arrival[1] < 0 THEN ps
  ELSE IF row.burst = Missing \/ row.burst[1] = 0 \/ row.burst[1] <= 0 THEN ps
  ELSE Append(ps, Proc(row.process, row.arrival[1], row.burst[1],
                       ParseIntOr(row.priority, DefaultPriority)))

RECURSIVE ImportRows(_, _, _)
ImportRows(ps, data, n) ==
  IF n = 0 THEN ps ELSE ImportRow(ImportRows(ps, data, n - 1), data[n])

ProcessUploadedData ==
  /\ pc = "idle"
  /\ BeforeFirstRun
  /\ \E data \in Files : processes' = ImportRows(processes, data, Len(data))
  /\ UNCHANGED <<algorithmSelect, timeQuantumInput, timeline, metrics, pc, locals>>

\* The user picks an algorithm; handleAlgorithmChange() shows the Time
\* Quantum field only for Round Robin, where a quantum is then typed.
HandleAlgorithmChange ==
  /\ pc = "idle"
  /\ BeforeFirstRun
  /\ algorithmSelect' \in Algorithms
  /\ timeQuantumInput' \in (IF algorithmSelect' = "RoundRobin" THEN QuantumInputs
                            ELSE {timeQuantumInput})
  /\ UNCHANGED <<processes, timeline, metrics, pc, locals>>

AppInit ==
  /\ processes = <<>>
  /\ timeline = <<>>
  /\ metrics = NoMetrics
  /\ algorithmSelect = "FCFS"
  /\ timeQuantumInput = DefaultQuantum
  /\ pc = "idle"
  /\ result = <<>>
  /\ time = 0
  /\ sorted = <<>>
  /\ idx = 1
  /\ remaining = <<>>
  /\ procs = <<>>
  /\ active = 0
  /\ startTime = 0
  /\ queue = <<>>
  /\ tq = 0

AppNext ==
  \/ AddProcess
  \/ ProcessUploadedData
  \/ DeleteProcess
  \/ ClearAll
  \/ Reset
  \/ HandleAlgorithmChange
  \/ Next

AppSpec == AppInit /\ [][AppNext]_vars

(***************************************************************************)
(* Vocabulary of the properties.  An algorithm `returns' in the state in   *)
(* which its loop test fails: result is then the timeline it hands to      *)
(* run().                                                                  *)
(***************************************************************************)
Returns(a) == pc = a /\ LoopDone

Returning == pc # "idle" /\ LoopDone

\* A valid input: a non-empty list, unique ids, arrival >= 0, burst >= 1, and a
\* quantum >= 1 for Round Robin.
ValidInput(ps) ==
  /\ Len(ps) >= 1
  /\ \A j, k \in 1..Len(ps) : j # k => ps[j].id # ps[k].id
  /\ \A k \in 1..Len(ps) : ps[k].arrival >= 0 /\ ps[k].burst >= 1

ValidRun == ValidInput(processes) /\ (pc = "RoundRobin" => tq >= 1)

Ids == {processes[k].id : k \in 1..Len(processes)}

ProcOf(id) == processes[CHOOSE k \in 1..Len(processes) : processes[k].id = id]

PosOf(id) == CHOOSE k \in 1..Len(processes) : processes[k].id = id

NamedBy(tl, id) == {k \in 1..Len(tl) : tl[k].process = id}

Duration(e) == e.end - e.start

\* The time units of entry e that lie before time t.
Clipped(e, t) ==
  IF e.end <= t THEN e.end - e.start
  ELSE IF e.start < t THEN t - e.start ELSE 0

\* CPU time the timeline gives process id before time t.
ExecBefore(tl, id, t) ==
  Sum([k \in 1..Len(tl) |-> IF tl[k].process = id THEN Clipped(tl[k], t) ELSE 0])

TotalExec(tl, id) ==
  Sum([k \in 1..Len(tl) |-> IF tl[k].process = id THEN Duration(tl[k]) ELSE 0])

RemainingAt(tl, id, t) == ProcOf(id).burst - ExecBefore(tl, id, t)

\* Process id holds the CPU during the time unit [t, t+1).
Occupies(tl, id, t) == \E k \in NamedBy(tl, id) : tl[k].start <= t /\ t < tl[k].end

\* The processes that have arrived by t and are unfinished at t.
Eligible(tl, t) == {id \in Ids : ProcOf(id).arrival <= t /\ RemainingAt(tl, id, t) > 0}

EndOf(tl) == IF tl = <<>> THEN 0 ELSE SetMax({tl[k].end : k \in 1..Len(tl)})

Triples(tl) == [k \in 1..Len(tl) |-> <<tl[k].process, tl[k].start, tl[k].end>>]

\* The entries of tl that name a process, in order.
ProcessEntries(tl) == SelectSeq(tl, LAMBDA e : e.process # IDLE)

(***************************************************************************)
(* C1.  For each of the five algorithms and every valid input the returned *)
(* timeline is contiguous: every entry ends where the next one starts, so  *)
(* idle periods appear as explicit IDLE entries.                           *)
(* roundRobin skips idle time with time++ and pushes no IDLE entry.        *)
(***************************************************************************)
Contiguous(tl) == \A k \in 1..(Len(tl) - 1) : tl[k].end = tl[k + 1].start

C1_Contiguity == (Returning /\ ValidRun) => Contiguous(result)

(***************************************************************************)
(* C2.  Conservation: in the timeline returned by any of the five          *)
(* algorithms on valid input, the durations of the entries naming a        *)
(* process add up to that process's burst.                                 *)
(***************************************************************************)
C2_Conservation ==
  (Returning /\ ValidRun) => \A id \in Ids : TotalExec(result, id) = ProcOf(id).burst

\* A returned timeline in which some process was run in several pieces.
C2_Witness ==
  /\ Returning
  /\ ValidRun
  /\ \E id \in Ids : Cardinality({k \in NamedBy(result, id) : Duration(result[k]) > 0}) >= 2

(***************************************************************************)
(* C3.  Mutual exclusion: in the timeline returned by any of the five      *)
(* algorithms on valid input no entry starts before the previous one ends, *)
(* and no time unit is held by two processes.                              *)
(***************************************************************************)
C3_NoOverlap ==
  (Returning /\ ValidRun) =>
    /\ \A k \in 1..(Len(result) - 1) : result[k].end <= result[k + 1].start
    /\ \A t \in 0..EndOf(result) :
         Cardinality({id \in Ids : Occupies(result, id, t)}) <= 1

\* A returned timeline of a preemptive algorithm with a preempted interval
\* followed by another process's interval.
C3_Witness ==
  /\ Returning
  /\ pc \in {"Priority", "SRTF", "RoundRobin"}
  /\ \E k \in 1..(Len(result) - 1) :
        /\ result[k].process # IDLE
        /\ result[k + 1].process \notin {IDLE, result[k].process}
        /\ RemainingAt(result, result[k].process, result[k].end) > 0

(***************************************************************************)
(* C4.  Every entry of the timeline returned by any of the five algorithms *)
(* on valid input has end > start.                                         *)
(* roundRobin queues a process that keeps remaining > 0 twice after its    *)
(* slice, and the second queue entry is dispatched with exec = 0.          *)
(***************************************************************************)
C4_PositiveLength ==
  (Returning /\ ValidRun) => \A k \in 1..Len(result) : result[k].end > result[k].start

(***************************************************************************)
(* C5.  Round Robin fairness: in the timeline roundRobin(tq) returns, no   *)
(* process holds the CPU for more than tq consecutive time units while     *)
(* another process that has arrived and is unfinished waits; for           *)
(* [{P1,0,4},{P2,1,4}] and quantum 2, P1 does not hold both [0,2) and      *)
(* [2,4).                                                                  *)
(* roundRobin re-queues the process it has just run ahead of the processes *)
(* that arrived during its slice.                                          *)
(***************************************************************************)
HoldsFrom(tl, id, t, n) == \A u \in t..(t + n - 1) : Occupies(tl, id, u)

C5_RoundRobinFairness ==
  (Returns("RoundRobin") /\ ValidRun) =>
    /\ \A id \in Ids : \A t \in 0..EndOf(result) :
         HoldsFrom(result, id, t, tq + 1) =>
           ~\E other \in Ids \ {id} :
               ProcOf(other).arrival <= t /\ RemainingAt(result, other, t) > 0
    /\ (processes = <<Proc("P1", 0, 4, 1), Proc("P2", 1, 4, 1)>> /\ tq = 2) =>
         ~HoldsFrom(result, "P1", 0, 4)

(***************************************************************************)
(* C6.  SRTF selection: in the timeline srtf() returns, the process that   *)
(* executes during a time unit [t, t+1) has the minimum remaining time at  *)
(* t among the processes that have arrived by t and are unfinished; for    *)
(* [{P1,0,8},{P2,1,4}] the timeline is [{P1,0,1},{P2,1,5},{P1,5,12}].      *)
(***************************************************************************)
C6_SrtfSelection ==
  (Returns("SRTF") /\ ValidRun) =>
    /\ \A t \in 0..EndOf(result) : \A id \in Ids :
         Occupies(result, id, t) =>
           \A other \in Eligible(result, t) :
              RemainingAt(result, id, t) <= RemainingAt(result, other, t)
    /\ processes = <<Proc("P1", 0, 8, 1), Proc("P2", 1, 4, 1)>> =>
         Triples(result) = <<<<"P1", 0, 1>>, <<"P2", 1, 5>>, <<"P1", 5, 12>>>>

\* srtf() returns a timeline in which a process was preempted by one that
\* arrived later with a strictly smaller remaining time.
C6_Witness ==
  /\ Returns("SRTF")
  /\ \E k \in 1..(Len(result) - 1) :
        /\ result[k].process # IDLE
        /\ result[k + 1].process \notin {IDLE, result[k].process}
        /\ RemainingAt(result, result[k].process, result[k].end) >
             RemainingAt(result, result[k + 1].process, result[k].end)
        /\ ProcOf(result[k + 1].process).arrival = result[k].end

(***************************************************************************)
(* C7.  FCFS ordering: fcfs() runs every process once, as a single entry   *)
(* of length burst, in non-decreasing arrival order, processes of equal    *)
(* arrival in their order in the process list; for [{P1,0,5},{P2,1,3}] the *)
(* timeline is [{P1,0,5},{P2,5,8}].                                        *)
(***************************************************************************)
C7_FcfsOrdering ==
  (Returns("FCFS") /\ ValidRun) =>
    LET pe == ProcessEntries(result)
    IN  /\ Len(pe) = Len(processes)
        /\ \A id \in Ids : Cardinality(NamedBy(result, id)) = 1
        /\ \A k \in 1..Len(pe) : Duration(pe[k]) = ProcOf(pe[k].process).burst
        /\ \A j, k \in 1..Len(pe) :
             j < k =>
               \/ ProcOf(pe[j].process).arrival < ProcOf(pe[k].process).arrival
               \/ /\ ProcOf(pe[j].process).arrival = ProcOf(pe[k].process).arrival
                  /\ PosOf(pe[j].process) < PosOf(pe[k].process)
        /\ processes = <<Proc("P1", 0, 5, 1), Proc("P2", 1, 3, 1)>> =>
             Triples(result) = <<<<"P1", 0, 5>>, <<"P2", 5, 8>>>>

\* fcfs() returns for a list that the sort reorders and that has two
\* processes of equal arrival.
C7_Witness ==
  /\ Returns("FCFS")
  /\ \E j, k \in 1..Len(processes) : j < k /\ processes[j].arrival > processes[k].arrival
  /\ \E j, k \in 1..Len(processes) : j < k /\ processes[j].arrival = processes[k].arrival

(***************************************************************************)
(* C8.  SJF is non-preemptive: in the timeline sjf() returns every process *)
(* is named by exactly one entry, of length exactly its burst, whatever    *)
(* shorter jobs arrive meanwhile; for [{P1,0,7},{P2,2,4},{P3,4,1}] P1      *)
(* holds [0,7) and P3 runs at 7, before P2.                                *)
(***************************************************************************)
C8_SjfNonPreemptive ==
  (Returns("SJF") /\ ValidRun) =>
    /\ \A id \in Ids :
         /\ Cardinality(NamedBy(result, id)) = 1
         /\ \A k \in NamedBy(result, id) : Duration(result[k]) = ProcOf(id).burst
    /\ processes = <<Proc("P1", 0, 7, 1), Proc("P2", 2, 4, 1), Proc("P3", 4, 1, 1)>> =>
         Triples(result) = <<<<"P1", 0, 7>>, <<"P3", 7, 8>>, <<"P2", 8, 12>>>>

\* sjf() returns a timeline in which a shorter job arrived while a longer
\* one was running.
C8_Witness ==
  /\ Returns("SJF")
  /\ \E k \in 1..Len(result) : \E other \in Ids :
        /\ result[k].process \notin {IDLE, other}
        /\ result[k].start < ProcOf(other).arrival
        /\ ProcOf(other).arrival < result[k].end
        /\ ProcOf(other).burst < ProcOf(result[k].process).burst

(***************************************************************************)
(* C9.  Priority preemption: in the timeline priority() returns, the       *)
(* process that executes during a time unit [t, t+1) has the minimum       *)
(* priority value among the processes that have arrived by t and are       *)
(* unfinished; when a process with a strictly lower priority number than   *)
(* the running one arrives at t, the running process's interval is closed  *)
(* at t and a process of lower priority number runs from t.                *)
(***************************************************************************)
C9_PriorityPreemption ==
  (Returns("Priority") /\ ValidRun) =>
    /\ \A t \in 0..EndOf(result) : \A id \in Ids :
         Occupies(result, id, t) =>
           \A other \in Eligible(result, t) :
              ProcOf(id).priority <= ProcOf(other).priority
    /\ \A t \in 1..EndOf(result) : \A id \in Ids :
         ( /\ Occupies(result, id, t - 1)
           /\ \E other \in Ids : /\ ProcOf(other).arrival = t
                                 /\ ProcOf(other).priority < ProcOf(id).priority )
         => /\ \E k \in NamedBy(result, id) : result[k].end = t
            /\ \E k \in 1..Len(result) :
                  /\ result[k].start = t
                  /\ result[k].process \in Ids
                  /\ ProcOf(result[k].process).priority < ProcOf(id).priority

\* priority() returns a timeline in which an unfinished process was
\* preempted by a process of lower priority number arriving at that time.
C9_Witness ==
  /\ Returns("Priority")
  /\ \E k \in 1..(Len(result) - 1) :
        /\ result[k].process # IDLE
        /\ result[k + 1].process \notin {IDLE, result[k].process}
        /\ RemainingAt(result, result[k].process, result[k].end) > 0
        /\ ProcOf(result[k + 1].process).arrival = result[k].end
        /\ ProcOf(result[k + 1].process).priority < ProcOf(result[k].process).priority

(***************************************************************************)
(* C10.  Idempotence: when an algorithm is run again on the unmodified     *)
(* process list, selector and quantum, the stored timeline and metrics     *)
(* after the second run equal those stored by the first.  (processes,      *)
(* algorithmSelect and timeQuantumInput never change under Spec.)          *)
(***************************************************************************)
C10_Idempotence ==
  [][(Returning /\ metrics # NoMetrics /\ pc' = "idle")
       => (timeline' = timeline /\ metrics' = metrics)]_vars

\* A second run is about to return, for an algorithm that works on per-run
\* copies with remaining counters.
C10_Witness ==
  /\ Returning
  /\ metrics # NoMetrics
  /\ timeline # <<>>
  /\ pc \in {"Priority", "SRTF", "RoundRobin"}

(***************************************************************************)
(* Vocabulary of the metrics properties.  Stored(a) holds once run() has   *)
(* stored a timeline and metrics; under Spec the process list, selector    *)
(* and quantum are those of that run.                                      *)
(***************************************************************************)
Stored == pc = "idle" /\ metrics # NoMetrics

TotalBurst == Sum([k \in 1..Len(processes) |-> processes[k].burst])

MaxArrivalOf(ps) == SetMax({ps[k].arrival : k \in 1..Len(ps)})

MinArrivalOf(ps) == SetMin({ps[k].arrival : k \in 1..Len(ps)})

HasIdle(tl) == \E k \in 1..Len(tl) : tl[k].process = IDLE

(***************************************************************************)
(* C11.  Utilization bound: after a run on valid input the stored          *)
(* cpuUtil = totalBurst / totalTime * 100 lies in 0..100, that is          *)
(* 0 < totalBurst <= totalTime, where totalTime is the maximum end over    *)
(* the stored timeline.                                                    *)
(***************************************************************************)
C11_UtilizationBound ==
  (Stored /\ ValidInput(processes)) =>
    /\ metrics.totalTime = Frac(EndOf(timeline), 1)
    /\ metrics.cpuUtil = Frac(TotalBurst * 100, EndOf(timeline))
    /\ 0 < TotalBurst /\ TotalBurst <= EndOf(timeline)
    /\ metrics.cpuUtil.den > 0
    /\ 0 <= metrics.cpuUtil.num /\ metrics.cpuUtil.num <= 100 * metrics.cpuUtil.den

\* Metrics are stored for a timeline with idle time (utilization below 100).
C11_Witness ==
  /\ Stored
  /\ ValidInput(processes)
  /\ Len(timeline) >= 2
  /\ metrics.cpuUtil.num < 100 * metrics.cpuUtil.den

(***************************************************************************)
(* C12.  After a run on valid input, cpuUtil equals 100 (totalBurst =      *)
(* totalTime) if and only if the stored timeline has no IDLE entry.        *)
(* roundRobin leaves idle time out of its timeline (see C1), so its        *)
(* timeline can be free of IDLE entries with cpuUtil below 100.            *)
(***************************************************************************)
C12_FullUtilizationIffNoIdle ==
  (Stored /\ ValidInput(processes)) =>
    ((metrics.cpuUtil.num = 100 * metrics.cpuUtil.den) <=> ~HasIdle(timeline))

(***************************************************************************)
(* C19 (as claimed).  For every algorithm's output on valid input the      *)
(* first timeline entry starts at the minimum arrival time.                *)
(* fcfs, sjf, priority and srtf start their clock at 0 and push an IDLE    *)
(* entry [0, min arrival) first when no process arrives at 0.              *)
(***************************************************************************)
C19_FirstEntryAtMinArrival ==
  (Returning /\ ValidRun) => result[1].start = MinArrivalOf(processes)

(***************************************************************************)
(* C19 (amended).  For every algorithm's output on valid input the first   *)
(* entry that names a process starts at the minimum arrival time; the      *)
(* first entry of the timeline is either that entry or an IDLE entry       *)
(* spanning exactly [0, min arrival).                                      *)
(***************************************************************************)
C19_FirstProcessEntryAtMinArrival ==
  (Returning /\ ValidRun) =>
    /\ ProcessEntries(result) # <<>>
    /\ ProcessEntries(result)[1].start = MinArrivalOf(processes)
    /\ \/ result[1] = ProcessEntries(result)[1]
       \/ /\ result[1] = IdleEntry(0, MinArrivalOf(processes))
          /\ result[2] = ProcessEntries(result)[1]

\* An algorithm returns for a list in which no process arrives at time 0
\* and whose earliest process is not the first of the list.
C19_Witness ==
  /\ Returning
  /\ ValidRun
  /\ MinArrivalOf(processes) > 0
  /\ processes[1].arrival > MinArrivalOf(processes)
  /\ result[1].process = IDLE

(***************************************************************************)
(* C20.  Metrics derivation: for every process, completion is the end of   *)
(* the last stored timeline entry naming it and firstStart the start of    *)
(* the first one (IDLE entries ignored); turnaround = completion -         *)
(* arrival, waiting = turnaround - burst, response = firstStart - arrival; *)
(* the stored averages are the sums of these over the process count,       *)
(* totalTurnSum the sum of the turnarounds and totalTime the maximum end.  *)
(***************************************************************************)
LastEnd(tl, id) == tl[SetMax(NamedBy(tl, id))].end

FirstBegin(tl, id) == tl[SetMin(NamedBy(tl, id))].start

Turnaround(tl, p) == LastEnd(tl, p.id) - p.arrival

Waiting(tl, p) == Turnaround(tl, p) - p.burst

Response(tl, p) == FirstBegin(tl, p.id) - p.arrival

C20_MetricsDerivation ==
  (Stored /\ ValidInput(processes)) =>
    LET n == Len(processes)
    IN  /\ \A id \in Ids : NamedBy(timeline, id) # {}
        /\ metrics.avgTurn = Frac(Sum([k \in 1..n |-> Turnaround(timeline, processes[k])]), n)
        /\ metrics.avgWait = Frac(Sum([k \in 1..n |-> Waiting(timeline, processes[k])]), n)
        /\ metrics.avgResp = Frac(Sum([k \in 1..n |-> Response(timeline, processes[k])]), n)
        /\ metrics.totalTurnSum =
             Frac(Sum([k \in 1..n |-> Turnaround(timeline, processes[k])]), 1)
        /\ metrics.totalTime = Frac(EndOf(timeline), 1)
        /\ \A id \in Ids : metrics.responseTime[id] = FirstBegin(timeline, id)

\* Metrics are stored for a timeline with an IDLE entry in which a process
\* has several entries, so that its first and last entries differ.
C20_Witness ==
  /\ Stored
  /\ ValidInput(processes)
  /\ HasIdle(timeline)
  /\ \E id \in Ids : /\ Cardinality(NamedBy(timeline, id)) >= 2
                     /\ LastEnd(timeline, id) > timeline[SetMin(NamedBy(timeline, id))].end

(***************************************************************************)
(* Loop iterations the running algorithm has completed, read off its       *)
(* local state: fcfs has consumed idx - 1 elements; every sjf iteration    *)
(* pushes one entry; a priority/srtf iteration pushes an IDLE entry or     *)
(* advances the clock by one unit of execution; a roundRobin iteration     *)
(* pushes an entry or advances the clock by one idle unit.                 *)
(***************************************************************************)
IdleEntries(tl) == {k \in 1..Len(tl) : tl[k].process = IDLE}

SumDurations(tl, ks) == Sum([k \in 1..Len(tl) |-> IF k \in ks THEN Duration(tl[k]) ELSE 0])

Iterations ==
  CASE pc = "FCFS"                -> idx - 1
    [] pc = "SJF"                 -> Len(result)
    [] pc \in {"Priority", "SRTF"} ->
         Cardinality(IdleEntries(result)) + (time - SumDurations(result, IdleEntries(result)))
    [] pc = "RoundRobin"          -> Len(result) + (time - SumDurations(result, 1..Len(result)))
    [] OTHER                      -> 0

C13_EmptyRunRejected ==
  /\ [](pc # "idle" => Len(processes) # 0)
  /\ [][(Len(processes) = 0 /\ Len(processes') = 0)
          => (metrics' = metrics /\ timeline' \in {timeline, <<>>})]_vars

\* The store is empty while a timeline and metrics of an earlier run are
\* stored.
C13_Witness ==
  /\ pc = "idle"
  /\ Len(processes) = 0
  /\ timeline # <<>>
  /\ metrics # NoMetrics

(***************************************************************************)
(* C14.  Round Robin is never run when the quantum read from the Time      *)
(* Quantum field is <= 0.                                                  *)
(***************************************************************************)
C14_QuantumRejected == (pc = "RoundRobin") => (timeQuantumInput >= 1)

(***************************************************************************)
(* C15.  No two processes of the store have the same id.                   *)
(***************************************************************************)
C15_UniqueIds ==
  \A i, j \in 1..Len(processes) : processes[i].id = processes[j].id => i = j

\* The store holds two processes: an add or an imported row with either id
\* is a duplicate.
C15_Witness == pc = "idle" /\ Len(processes) >= 2

(***************************************************************************)
(* C16.  Every stored process has arrival >= 0.                            *)
(***************************************************************************)
C16_NoNegativeArrival == \A k \in 1..Len(processes) : processes[k].arrival >= 0

(***************************************************************************)
(* C17.  Every stored process has burst >= 1.                              *)
(***************************************************************************)
C17_PositiveBurst == \A k \in 1..Len(processes) : processes[k].burst >= 1

\* A process of burst 1, the burst stored for the inputs 0, empty and 1, is
\* in the store next to a longer one.
C17_Witness ==
  /\ pc = "idle"
  /\ \E k \in 1..Len(processes) : processes[k].burst = 1
  /\ \E k \in 1..Len(processes) : processes[k].burst > 1

(***************************************************************************)
(* C21.  A run never changes the process list: every step of run(), from   *)
(* its start to the storing of the timeline, leaves this.processes with    *)
(* the same processes in the same order; remaining is counted on procs,    *)
(* the per-run copies.                                                     *)
(***************************************************************************)
C21_StoreUntouched ==
  [][(pc # "idle" \/ pc' # "idle") => processes' = processes]_vars

\* sjf has returned after splicing every process out of its copy, and a
\* preemptive run has counted a process down to 0: the store still holds
\* them.
C21_Witness ==
  /\ Returning
  /\ Len(processes) >= 2
  /\ \/ pc = "SJF" /\ Len(remaining) = 0
     \/ pc \in {"Priority", "SRTF", "RoundRobin"}
          /\ \A k \in 1..Len(procs) : procs[k].remaining = 0 /\ processes[k].burst > 0

(***************************************************************************)
(* C22.  After every run on a valid input every process of the store has   *)
(* a timeline entry of its own, so calculateMetrics finds a completion and *)
(* a first start for each process and no average is NaN.                   *)
(***************************************************************************)
C22_EveryProcessScheduled ==
  (Stored /\ ValidInput(processes)) =>
    /\ \A k \in 1..Len(processes) : EntriesOf(timeline, processes[k].id) # {}
    /\ metrics.avgWait # NaN /\ metrics.avgTurn # NaN /\ metrics.avgResp # NaN
    /\ DOMAIN metrics.responseTime = Ids

\* A stored timeline of three processes with more entries than processes
\* (idle time, preemptions or several slices).
C22_Witness ==
  /\ Stored
  /\ ValidInput(processes)
  /\ Len(processes) >= 3
  /\ Len(timeline) > Len(processes)

(***************************************************************************)
(* C23.  SJF selection.  Every entry of the sjf() timeline starts at the   *)
(* end of the one before (the first at 0).  If some process that has not   *)
(* run yet has arrived by then, the entry runs one of those with the       *)
(* minimum burst among them; otherwise it is an IDLE entry that ends at    *)
(* the minimum arrival among the processes that have not run yet.          *)
(***************************************************************************)
\* The ids with no entry before position k of tl.
NotRunBefore(tl, k) == {id \in Ids : \A j \in NamedBy(tl, id) : j >= k}

ArrivedNotRun(tl, k) == {id \in NotRunBefore(tl, k) : ProcOf(id).arrival <= tl[k].start}

C23_SjfSelection ==
  (Returns("SJF") /\ ValidRun) =>
    \A k \in 1..Len(result) :
      /\ result[k].start = (IF k = 1 THEN 0 ELSE result[k - 1].end)
      /\ IF ArrivedNotRun(result, k) = {}
         THEN /\ result[k].process = IDLE
              /\ NotRunBefore(result, k) # {}
              /\ result[k].end =
                   SetMin({ProcOf(id).arrival : id \in NotRunBefore(result, k)})
         ELSE /\ result[k].process \in ArrivedNotRun(result, k)
              /\ \A id \in ArrivedNotRun(result, k) :
                   ProcOf(result[k].process).burst <= ProcOf(id).burst

\* sjf idles until the first arrival and later picks the shorter of two
\* waiting processes, which is not the first of the list.
C23_Witness ==
  /\ Returns("SJF")
  /\ ValidRun
  /\ result[1].process = IDLE
  /\ \E k \in 2..Len(result) :
       /\ Cardinality(ArrivedNotRun(result, k)) >= 2
       /\ \E id \in ArrivedNotRun(result, k) :
            /\ ProcOf(id).burst > ProcOf(result[k].process).burst
            /\ PosOf(id) < PosOf(result[k].process)

(***************************************************************************)
(* C24.  SJF tie-break: of the arrived processes that have not run yet and *)
(* share the minimum burst, sjf() runs the one with the earliest arrival,  *)
(* and among equal arrivals the one that comes first in the process list.  *)
(* available.reduce((a, b) => a.burst < b.burst ? a : b) returns b on a    *)
(* tie: the last of the tied processes in list order runs.                 *)
(***************************************************************************)
\* Process a comes before process b first-come-first-served.
FcfsBefore(a, b) ==
  \/ ProcOf(a).arrival < ProcOf(b).arrival
  \/ ProcOf(a).arrival = ProcOf(b).arrival /\ PosOf(a) <= PosOf(b)

C24_SjfTieBreak ==
  (Returns("SJF") /\ ValidRun) =>
    \A k \in 1..Len(result) :
      result[k].process # IDLE =>
        \A id \in ArrivedNotRun(result, k) :
          ProcOf(id).burst = ProcOf(result[k].process).burst
            => FcfsBefore(result[k].process, id)

(***************************************************************************)
(* C25.  SRTF tie-break: of the arrived, unfinished processes that share   *)
(* the minimum remaining time at t, srtf() runs during [t, t+1) the one    *)
(* with the earliest arrival, then the first of the list; a process that   *)
(* runs during [t-1, t) and is unfinished at t is not replaced at t by a   *)
(* process whose remaining time equals its own.                            *)
(* The reduce returns the last of the tied processes in list order.        *)
(***************************************************************************)
C25_SrtfTieBreak ==
  (Returns("SRTF") /\ ValidRun) =>
    /\ \A t \in 0..EndOf(result) : \A id \in Ids :
         Occupies(result, id, t) =>
           \A other \in Eligible(result, t) :
             RemainingAt(result, other, t) = RemainingAt(result, id, t)
               => FcfsBefore(id, other)
    /\ \A t \in 1..EndOf(result) : \A id \in Ids : \A other \in Ids \ {id} :
         ( /\ Occupies(result, id, t - 1)
           /\ RemainingAt(result, id, t) > 0
           /\ Occupies(result, other, t) )
         => RemainingAt(result, other, t) < RemainingAt(result, id, t)

(***************************************************************************)
(* C26.  Priority tie-break: of the arrived, unfinished processes that     *)
(* share the minimum priority value at t, priority() runs during [t, t+1)  *)
(* the one with the earliest arrival, then the first of the list; a        *)
(* process that runs during [t-1, t) and is unfinished at t is not         *)
(* replaced at t by a process of the same priority value.                  *)
(* The reduce returns the last of the tied processes in list order.        *)
(***************************************************************************)
C26_PriorityTieBreak ==
  (Returns("Priority") /\ ValidRun) =>
    /\ \A t \in 0..EndOf(result) : \A id \in Ids :
         Occupies(result, id, t) =>
           \A other \in Eligible(result, t) :
             ProcOf(other).priority = ProcOf(id).priority => FcfsBefore(id, other)
    /\ \A t \in 1..EndOf(result) : \A id \in Ids : \A other \in Ids \ {id} :
         ( /\ Occupies(result, id, t - 1)
           /\ RemainingAt(result, id, t) > 0
           /\ Occupies(result, other, t) )
         => ProcOf(other).priority < ProcOf(id).priority

(***************************************************************************)
(* C27.  Interval merging in srtf() and priority(): no two adjacent        *)
(* timeline entries name the same process and no two IDLE entries are      *)
(* adjacent; an entry of a process ends either when the process completes  *)
(* or where an entry of a different process starts; and every process has  *)
(* an entry that ends at the time its remaining time reaches 0.            *)
(***************************************************************************)
\* The time at which process id has received its whole burst.
CompletionTime(tl, id) ==
  SetMin({t \in 0..EndOf(tl) : RemainingAt(tl, id, t) = 0})

C27_IntervalMerging ==
  ((Returns("SRTF") \/ Returns("Priority")) /\ ValidRun) =>
    /\ \A k \in 1..(Len(result) - 1) : result[k].process # result[k + 1].process
    /\ \A k \in 1..Len(result) :
         result[k].process # IDLE =>
           \/ RemainingAt(result, result[k].process, result[k].end) = 0
           \/ /\ k < Len(result)
              /\ result[k + 1].start = result[k].end
              /\ result[k + 1].process \notin {IDLE, result[k].process}
    /\ \A id \in Ids :
         \E k \in NamedBy(result, id) :
           /\ result[k].end = CompletionTime(result, id)
           /\ "arrival" \in DOMAIN result[k]

\* A process runs several time units as one entry, is preempted, and is
\* resumed later.
C27_Witness ==
  /\ Returns("SRTF") \/ Returns("Priority")
  /\ ValidRun
  /\ \E k \in 1..(Len(result) - 1) :
       /\ result[k].process # IDLE
       /\ Duration(result[k]) >= 2
       /\ RemainingAt(result, result[k].process, result[k].end) > 0
       /\ \E j \in (k + 2)..Len(result) : result[j].process = result[k].process

(***************************************************************************)
(* C28.  Round Robin enqueue order, as seen in the timeline: a process     *)
(* that arrives during a slice of process p (after its start, up to its    *)
(* end) is dispatched before the next slice of p; and of two processes     *)
(* that arrive during the same slice, the earlier arrival is dispatched    *)
(* first, the first of the list on equal arrivals.                         *)
(* roundRobin's filter after the slice does not exclude p, so p is queued  *)
(* ahead of the newcomers it precedes in the list, and the filter appends  *)
(* in list order, not in arrival order.                                    *)
(***************************************************************************)
ArrivedDuring(e) ==
  {id \in Ids : e.start < ProcOf(id).arrival /\ ProcOf(id).arrival <= e.end}

FirstEntry(tl, id) == SetMin(NamedBy(tl, id))

C28_RoundRobinEnqueueOrder ==
  (Returns("RoundRobin") /\ ValidRun) =>
    \A k \in 1..Len(result) :
      /\ \A q \in ArrivedDuring(result[k]) \ {result[k].process} :
           \A j \in (k + 1)..Len(result) :
             result[j].process = result[k].process =>
               \E i \in (k + 1)..(j - 1) : result[i].process = q
      /\ \A q1, q2 \in ArrivedDuring(result[k]) :
           (q1 # q2 /\ FcfsBefore(q1, q2)) =>
             FirstEntry(result, q1) < FirstEntry(result, q2)

(***************************************************************************)
(* C29.  Round Robin idle handling: every time unit before the end of the  *)
(* roundRobin timeline in which no process runs lies in an IDLE entry that *)
(* starts where the idle gap starts and ends at the next arrival.          *)
(* roundRobin's idle branch is time++ alone: it pushes no entry.           *)
(***************************************************************************)
NoneRuns(tl, t) == \A id \in Ids : ~Occupies(tl, id, t)

C29_RoundRobinIdle ==
  (Returns("RoundRobin") /\ ValidRun) =>
    \A t \in 0..(EndOf(result) - 1) :
      NoneRuns(result, t) =>
        \E k \in 1..Len(result) :
          /\ result[k].process = IDLE
          /\ result[k].start <= t /\ t < result[k].end
          /\ result[k].start = 0 \/ ~NoneRuns(result, result[k].start - 1)
          /\ result[k].end =
               SetMin({ProcOf(id).arrival : id \in {i \in Ids : ProcOf(i).arrival > t}})

(***************************************************************************)
(* C30.  Round Robin slice length: at every point of a roundRobin run,     *)
(* each entry pushed so far lasts min(tq, what its process had left when   *)
(* it was dispatched), hence at most tq, and the remaining time of every   *)
(* process is its burst less the durations of its entries.                 *)
(***************************************************************************)
\* What the process of entry k had left at its dispatch: its burst less
\* the durations of its earlier entries.
LeftAtDispatch(tl, k) ==
  ProcOf(tl[k].process).burst -
    Sum([j \in 1..(k - 1) |-> IF tl[j].process = tl[k].process THEN Duration(tl[j])
                              ELSE 0])

C30_RoundRobinSlice ==
  (pc = "RoundRobin" /\ ValidRun) =>
    /\ \A k \in 1..Len(result) :
         /\ result[k].process \in Ids
         /\ Duration(result[k]) = Min2(tq, LeftAtDispatch(result, k))
         /\ Duration(result[k]) <= tq
    /\ \A i \in 1..Len(procs) :
         procs[i].remaining = processes[i].burst - TotalExec(result, processes[i].id)

\* A process longer than the quantum got a full slice and then a shorter
\* last one.
C30_Witness ==
  /\ Returns("RoundRobin")
  /\ ValidRun
  /\ \E k \in 1..Len(result) : \E j \in (k + 1)..Len(result) :
       /\ result[j].process = result[k].process
       /\ Duration(result[k]) = tq
       /\ 0 < Duration(result[j]) /\ Duration(result[j]) < tq

(***************************************************************************)
(* C31.  Round Robin ready queue: at every point of the roundRobin loop    *)
(* the ready queue holds each process at most once, and holds only         *)
(* processes that have arrived (arrival <= clock) and have remaining > 0.  *)
(* roundRobin's filter after the slice does not exclude the process that   *)
(* has just run, which is then pushed a second time; the second queue      *)
(* entry outlives the completion of the process.                           *)
(***************************************************************************)
C31_ReadyQueueInvariant ==
  (pc = "RoundRobin" /\ ValidRun) =>
    /\ \A i, j \in 1..Len(queue) : queue[i] = queue[j] => i = j
    /\ \A i \in 1..Len(queue) :
         /\ procs[queue[i]].arrival <= time
         /\ procs[queue[i]].remaining > 0

(***************************************************************************)
(* C32.  Work conservation: in the timeline any of the five algorithms     *)
(* returns on valid input, a time unit before the end of the timeline in   *)
(* which no process runs has no process that has arrived and is            *)
(* unfinished; and such time units are exactly the ones covered by IDLE    *)
(* entries, an IDLE entry starting only when no process has arrived        *)
(* unfinished.                                                             *)
(* roundRobin (C1, C29) passes idle time with time++ and pushes no IDLE    *)
(* entry.                                                                  *)
(***************************************************************************)
C32_WorkConservation ==
  (Returning /\ ValidRun) =>
    /\ \A t \in 0..(EndOf(result) - 1) :
         NoneRuns(result, t) => Eligible(result, t) = {}
    /\ \A t \in 0..(EndOf(result) - 1) :
         NoneRuns(result, t) <=>
           \E k \in 1..Len(result) :
             /\ result[k].process = IDLE
             /\ result[k].start <= t /\ t < result[k].end
    /\ \A k \in 1..Len(result) :
         result[k].process = IDLE =>
           /\ Eligible(result, result[k].start) = {}
           /\ \E id \in Ids : ProcOf(id).arrival = result[k].end
           /\ \A id \in Ids : RemainingAt(result, id, result[k].start) > 0 =>
                               ProcOf(id).arrival >= result[k].end

(***************************************************************************)
(* C33.  The completion time calculateMetrics uses for a process, the end  *)
(* of its last timeline entry, is the time at which the process has        *)
(* received its whole burst, for all five algorithms; and no entry names a *)
(* process that had nothing left when the entry was dispatched.            *)
(* roundRobin (C4) dispatches the second queue entry of a process after    *)
(* the process has finished: a zero-length entry that ends later than the  *)
(* completion.                                                             *)
(***************************************************************************)
C33_CompletionIsLastEntry ==
  (Returning /\ ValidRun) =>
    \A id \in Ids :
      /\ EntriesOf(result, id) # {}
      /\ Completion(result, id) = CompletionTime(result, id)
      /\ \A k \in NamedBy(result, id) : LeftAtDispatch(result, k) > 0

(***************************************************************************)
(* C34.  No process executes before it arrives: in the timeline any of the *)
(* five algorithms returns on valid input every entry of a process starts  *)
(* at or after the process's arrival; and with the completion and first    *)
(* start calculateMetrics takes from the timeline, every process has       *)
(* response >= 0, waiting >= 0 and response <= waiting.                    *)
(***************************************************************************)
C34_NoExecutionBeforeArrival ==
  (Returning /\ ValidRun) =>
    /\ \A k \in 1..Len(result) :
         result[k].process # IDLE =>
           /\ result[k].process \in Ids
           /\ result[k].start >= ProcOf(result[k].process).arrival
    /\ \A id \in Ids :
         /\ EntriesOf(result, id) # {}
         /\ LET p  == ProcOf(id)
                wt == (Completion(result, id) - p.arrival) - p.burst
                rt == FirstStart(result, id) - p.arrival
            IN  rt >= 0 /\ wt >= 0 /\ rt <= wt

\* A returned timeline in which a process started after its arrival and
\* waited again after its first start.
C34_Witness ==
  /\ Returning
  /\ ValidRun
  /\ \E id \in Ids :
       /\ EntriesOf(result, id) # {}
       /\ ProcOf(id).arrival > 0
       /\ FirstStart(result, id) > ProcOf(id).arrival
       /\ (Completion(result, id) - ProcOf(id).arrival) - ProcOf(id).burst >
            FirstStart(result, id) - ProcOf(id).arrival

(***************************************************************************)
(* The earlier drafts of the engine.  src/script.js keeps a timeline of    *)
(* {pid, start, end} and a stats row per process; src/unnamed/part_000 has *)
(* the timeline entries of src/scheduler.js but pushes no IDLE entry.      *)
(***************************************************************************)
ScriptEntry(p, start, end) == [pid |-> p.id, start |-> start, end |-> end]

ScriptStats(p, start, end) ==
  [pid |-> p.id, arrival |-> p.arrival, burst |-> p.burst, ct |-> end,
   tat |-> end - p.arrival, wt |-> start - p.arrival, rt |-> start - p.arrival]

\* fcfs(proc) of src/script.js after the first n processes of sorted.
RECURSIVE ScriptFcfsUpTo(_, _)
ScriptFcfsUpTo(srt, n) ==
  IF n = 0 THEN [time |-> 0, timeline |-> <<>>, stats |-> <<>>]
  ELSE LET prev  == ScriptFcfsUpTo(srt, n - 1)
           p     == srt[n]
           start == IF prev.time < p.arrival THEN p.arrival ELSE prev.time
           end   == start + p.burst
       IN  [time     |-> end,
            timeline |-> Append(prev.timeline, ScriptEntry(p, start, end)),
            stats    |-> Append(prev.stats, ScriptStats(p, start, end))]

ScriptFcfs(proc) ==
  LET r == ScriptFcfsUpTo(SortByArrival(proc), Len(proc))
  IN  [timeline |-> r.timeline, stats |-> r.stats]

\* The forEach of sjfNonPreemptive: the first position, in list order, of
\* the smallest burst among the unvisited arrived processes; 0 for -1.
ScriptShortest(proc, visited, t) ==
  LET cand == {i \in 1..Len(proc) : i \notin visited /\ proc[i].arrival <= t}
  IN  IF cand = {} THEN 0
      ELSE CHOOSE i \in cand :
             \A j \in cand : proc[i].burst < proc[j].burst
                             \/ (proc[i].burst = proc[j].burst /\ i <= j)

\* sjfNonPreemptive(proc) of src/script.js from one test of
\* `while (completed < n)` on.
RECURSIVE SjfNonPreemptiveFrom(_, _, _, _, _)
SjfNonPreemptiveFrom(proc, visited, t, tl, stats) ==
  IF Cardinality(visited) >= Len(proc) THEN [timeline |-> tl, stats |-> stats]
  ELSE LET i == ScriptShortest(proc, visited, t)
       IN  IF i = 0 THEN SjfNonPreemptiveFrom(proc, visited, t + 1, tl, stats)
           ELSE LET p   == proc[i]
                    end == t + p.burst
                IN  SjfNonPreemptiveFrom(proc, visited \cup {i}, end,
                                         Append(tl, ScriptEntry(p, t, end)),
                                         Append(stats, ScriptStats(p, t, end)))

SjfNonPreemptive(proc) == SjfNonPreemptiveFrom(proc, {}, 0, <<>>, <<>>)

\* available.reduce((min, cur) => cur.burst < min.burst ? cur : min) of
\* src/unnamed/part_000: the fold replaces the accumulator only by a
\* strictly smaller key.
RECURSIVE DraftReduceUpTo(_, _)
DraftReduceUpTo(keys, n) ==
  IF n = 1 THEN 1
  ELSE LET min == DraftReduceUpTo(keys, n - 1)
       IN  IF keys[n] < keys[min] THEN n ELSE min

DraftReduce(keys) == DraftReduceUpTo(keys, Len(keys))

\* sjf() of src/unnamed/part_000 from one test of
\* `while (remaining.length > 0)` on.
RECURSIVE DraftSjfFrom(_, _, _)
DraftSjfFrom(rem, t, res) ==
  IF Len(rem) = 0 THEN res
  ELSE LET available == FilterIdx([k \in 1..Len(rem) |-> rem[k].arrival <= t], Len(rem))
       IN  IF Len(available) = 0
           THEN DraftSjfFrom(rem, SetMin({rem[k].arrival : k \in 1..Len(rem)}), res)
           ELSE LET k == available[DraftReduce([j \in 1..Len(available) |->
                                                  rem[available[j]].burst])]
                    p == rem[k]
                IN  DraftSjfFrom(Splice(rem, IndexOf(rem, p)), t + p.burst,
                                 Append(res, RunEntry(p.id, t, t + p.burst, p.arrival)))

DraftSjf(ps) == DraftSjfFrom(ps, 0, <<>>)

(***************************************************************************)
(* C35.  For the non-preemptive algorithms fcfs and sjf the waiting time   *)
(* of every process equals its response time: calculateMetrics's           *)
(* turnaround - burst equals first start - arrival; and start - arrival is *)
(* what fcfs and sjfNonPreemptive of the draft src/script.js record as     *)
(* both wt and rt.                                                         *)
(***************************************************************************)
C35_WaitingIsResponse ==
  ((Returns("FCFS") \/ Returns("SJF")) /\ ValidRun) =>
    /\ \A id \in Ids :
         /\ EntriesOf(result, id) # {}
         /\ (Completion(result, id) - ProcOf(id).arrival) - ProcOf(id).burst =
              FirstStart(result, id) - ProcOf(id).arrival
    /\ LET draft == IF pc = "FCFS" THEN ScriptFcfs(processes)
                    ELSE SjfNonPreemptive(processes)
       IN  /\ Len(draft.stats) = Len(processes)
           /\ \A k \in 1..Len(draft.stats) :
                /\ draft.stats[k].pid = draft.timeline[k].pid
                /\ draft.stats[k].wt = draft.timeline[k].start - draft.stats[k].arrival
                /\ draft.stats[k].rt = draft.stats[k].wt
                /\ draft.stats[k].tat - draft.stats[k].burst = draft.stats[k].wt

\* fcfs or sjf returns a timeline in which some process waited.
C35_Witness ==
  /\ Returns("FCFS") \/ Returns("SJF")
  /\ ValidRun
  /\ \E id \in Ids :
       /\ EntriesOf(result, id) # {}
       /\ FirstStart(result, id) > ProcOf(id).arrival

(***************************************************************************)
(* C39.  The drafts diverge only in IDLE entries: for every valid input    *)
(* the timeline sjf() of src/scheduler.js returns, with its IDLE entries   *)
(* removed, has the same processes in the same order with the same start   *)
(* and end as the timeline of sjf() of src/unnamed/part_000 and as the     *)
(* timeline of sjfNonPreemptive of src/script.js.                          *)
(* The reduce of src/scheduler.js returns the later of two available       *)
(* processes of equal burst (C24); both drafts keep the earlier one.       *)
(***************************************************************************)
ScriptTriples(tl) == [k \in 1..Len(tl) |-> <<tl[k].pid, tl[k].start, tl[k].end>>]

C39_DraftsAgree ==
  (Returns("SJF") /\ ValidRun) =>
    /\ Triples(ProcessEntries(result)) = Triples(DraftSjf(processes))
    /\ Triples(ProcessEntries(result)) = ScriptTriples(SjfNonPreemptive(processes).timeline)

(***************************************************************************)
(* C36.  reset() empties the stored timeline and leaves the process list   *)
(* unchanged, same processes in the same order, in whatever state of the   *)
(* page it is called.                                                      *)
(***************************************************************************)
C36_ResetFrame ==
  /\ [](pc = "idle" => ENABLED Reset)
  /\ [][Reset => (timeline' = <<>> /\ processes' = processes)]_vars

\* The state after reset() was called with a stored result of a list that
\* is still there.
C36_Witness ==
  /\ pc = "idle"
  /\ metrics # NoMetrics
  /\ timeline = <<>>
  /\ Len(processes) >= 2

(***************************************************************************)
(* C37.  A rejected addProcess (empty id, id already present, or burst <=  *)
(* 0) leaves the process list, the timeline and the metrics unchanged; an  *)
(* accepted addProcess appends exactly one process, the one read from the  *)
(* form, at the end of the list and changes nothing else.                  *)
(***************************************************************************)
\* Every form with a new id and a burst of at least 1 is accepted.
C37_Accepted ==
  (pc = "idle" /\ BeforeFirstRun) =>
    \A id \in IdInputs \ {""} : \A a \in 0..MaxFormArrival :
      \A b \in 1..MaxFormBurst : \A pr \in 1..MaxFormPriority :
        ~(\E k \in 1..Len(processes) : processes[k].id = id) =>
           ENABLED (AddProcess /\ processes' = Append(processes, Proc(id, a, b, pr)))

C38_StoredResultFresh ==
  pc = "idle" =>
    \/ timeline = <<>>
    \/ /\ \A k \in 1..Len(timeline) :
            timeline[k].process # IDLE => timeline[k].process \in Ids
       /\ \A id \in Ids : NamedBy(timeline, id) # {}

(***************************************************************************)
(* C40.  Makespan bound: for each of the five algorithms on valid input    *)
(* the simulated clock never exceeds maxArrival + totalBurst, and the      *)
(* totalTime calculateMetrics stores satisfies                             *)
(* totalBurst <= totalTime <= maxArrival + totalBurst.                     *)
(***************************************************************************)
C40_MakespanBound ==
  /\ (pc # "idle" /\ ValidRun) =>
       /\ time <= MaxArrivalOf(processes) + TotalBurst
       /\ \A k \in 1..Len(result) : result[k].end <= MaxArrivalOf(processes) + TotalBurst
  /\ (Stored /\ ValidInput(processes) /\ timeline # <<>>) =>
       /\ metrics.totalTime.den = 1
       /\ TotalBurst <= metrics.totalTime.num
       /\ metrics.totalTime.num <= MaxArrivalOf(processes) + TotalBurst

\* A stored result whose totalTime lies strictly between the two bounds.
C40_Witness ==
  /\ Stored
  /\ ValidInput(processes)
  /\ timeline # <<>>
  /\ Len(processes) >= 2
  /\ TotalBurst < metrics.totalTime.num
  /\ metrics.totalTime.num < MaxArrivalOf(processes) + TotalBurst

====
